---- MODULE Spec2Model ----
(***************************************************************************)
(* Model of the Boulderdash cave tools: redistribute-diamonds.py,          *)
(* verify-accessibility.py, check-sealed-diamonds.py and                   *)
(* check-all-caves.py.  A pattern text is a sequence of one-character      *)
(* strings; coordinates are 0-based tuples <<x, y>> as in the Python code. *)
(***************************************************************************)
EXTENDS Integers, Sequences, FiniteSets, TLC

VARIABLES
    \* redistribute-diamonds.py: the fixes loop over one cave
    content, required, prev, runs, log, raised,
    \* verify-accessibility.py: the report loop and flood_fill_check
    caves, cave_i, pc, lines, player_pos, diamond_positions,
    visited, queue, reachable_diamonds, enq_log, results, statuses, all_ok,
    \* check-all-caves.py: the clustering loop body
    pattern, clustering

redistVars == <<content, required, prev, runs, log, raised>>
floodVars == <<caves, cave_i, pc, lines, player_pos, diamond_positions,
               visited, queue, reachable_diamonds, enq_log, results, statuses, all_ok>>
clusterVars == <<pattern, clustering>>
vars == <<redistVars, floodVars, clusterVars>>

-----------------------------------------------------------------------------
(* Bounds of the model *)

\* longest pattern text drawn for redistribute_cave_diamonds
MaxLen == 4
\* longest row of dirt drawn for redistribute_cave_diamonds (candidate count)
MaxCand == 30
\* largest required diamond count
MaxRequired == 22
\* how many times the redistribution script is run on the same file
MaxRuns == 2

-----------------------------------------------------------------------------
(* Text helpers: str.strip(), str.split('\n'), '\n'.join(...) *)

NL == "\n"

\* the characters str.strip() removes that a pattern over the alphabets below can hold
IsWhitespace(c) == c \in {" ", NL}

RECURSIVE LStrip(_)
LStrip(s) ==
    IF Len(s) = 0 THEN <<>>
    ELSE IF IsWhitespace(s[1]) THEN LStrip(SubSeq(s, 2, Len(s)))
    ELSE s

RECURSIVE RStrip(_)
RStrip(s) ==
    IF Len(s) = 0 THEN <<>>
    ELSE IF IsWhitespace(s[Len(s)]) THEN RStrip(SubSeq(s, 1, Len(s) - 1))
    ELSE s

\* pattern_text.strip()
strip(s) == RStrip(LStrip(s))

\* s.split('\n'): always at least one (possibly empty) line
RECURSIVE split(_)
split(s) ==
    IF \E i \in 1..Len(s) : s[i] = NL
    THEN LET i == CHOOSE j \in 1..Len(s) :
                      s[j] = NL /\ \A k \in 1..(j - 1) : s[k] # NL
         IN  <<SubSeq(s, 1, i - 1)>> \o split(SubSeq(s, i + 1, Len(s)))
    ELSE <<s>>

\* '\n'.join(ls)
RECURSIVE join(_)
join(ls) ==
    IF Len(ls) = 0 THEN <<>>
    ELSE IF Len(ls) = 1 THEN ls[1]
    ELSE ls[1] \o <<NL>> \o join(Tail(ls))

\* the grid every tool but the flood fill works on: pattern_text.strip().split('\n')
parse_lines(pattern_text) == split(strip(pattern_text))

\* s.count(c)
count(s, c) == Cardinality({i \in 1..Len(s) : s[i] = c})

\* all texts of length 1..n over an alphabet (the regex `([^`]+)` never yields "")
Texts(alphabet, n) == UNION {[1..k -> alphabet] : k \in 1..n}

-----------------------------------------------------------------------------
(* redistribute-diamonds.py *)

\* remove_diamonds with a fault: the existing diamonds are left in the lines
keep_diamonds(line) == line

\* line.replace('*', '.')
remove_diamonds(line) == [x \in 1..Len(line) |-> IF line[x] = "*" THEN "." ELSE line[x]]

\* is_valid_char with a fault: walls count as valid positions too
is_valid_char_or_wall(c) == c \in {".", " ", "W"}

\* the test of line 21: char in ['.', ' ']
is_valid_char(c) == c \in {".", " "}

\* the valid positions of one row, left to right
row_positions(line, y) ==
    LET xs == SelectSeq([x \in 1..Len(line) |-> x], LAMBDA x : is_valid_char(line[x]))
    IN  [k \in 1..Len(xs) |-> <<xs[k] - 1, y>>]

RECURSIVE positions_from(_, _)
positions_from(ls, y) ==
    IF y > Len(ls) THEN <<>>
    ELSE row_positions(ls[y], y - 1) \o positions_from(ls, y + 1)

\* lines 18-22: valid_positions, row-major
valid_positions(cleaned_lines) == positions_from(cleaned_lines, 1)

(* The index int(i * step), step = n / r, is computed in IEEE-754 doubles.   *)
(* n / r is rounded to 53 significant bits, i * step is rounded again, and   *)
(* int() truncates.  When r does not divide i*n the exact value is at least  *)
(* 1/r away from an integer and both roundings (relative error 2^-53) leave  *)
(* the truncation at (i*n) div r.  When r divides i*n, with k = i*n/r, the   *)
(* product is k + i*d where d is the rounding error of the division; the     *)
(* result truncates to k - 1 exactly when d < 0 and i*|d| exceeds half the   *)
(* spacing of the doubles just below k (a tie rounds to k, whose significand *)
(* is even).  The counts of a cave are far below 2^26, where this holds.    *)
MantissaBits == 52

RECURSIVE Pow2(_)
Pow2(k) == IF k = 0 THEN 1 ELSE 2 * Pow2(k - 1)

\* the binary exponent e of n / r: r * 2^e <= n < r * 2^(e+1), for n >= r
RECURSIVE FloorLog2Ratio(_, _)
FloorLog2Ratio(n, r) == IF 2 * r <= n THEN 1 + FloorLog2Ratio(n, 2 * r) ELSE 0

\* the least g with 2^g >= k
RECURSIVE CeilLog2(_)
CeilLog2(k) == IF k <= 1 THEN 0 ELSE 1 + CeilLog2((k + 1) \div 2)

\* (x * 2^k) % m by repeated doubling
RECURSIVE ShiftMod(_, _, _)
ShiftMod(x, k, m) == IF k = 0 THEN x % m ELSE ShiftMod((2 * x) % m, k - 1, m)

\* line 29: step = len(valid_positions) / required, as the rounding of n / r:
\* e the exponent, rem the remainder the rounding drops (n * 2^(52-e) mod r),
\* down whether the quotient is rounded down (ties to even)
float_step(n, r) ==
    LET e == FloorLog2Ratio(n, r)
        x == ShiftMod(n % (2 * r), MantissaBits - e, 2 * r)
        rem == x % r
        odd == x >= r
    IN  [e |-> e, rem |-> rem,
         down |-> (2 * rem < r) \/ (2 * rem = r /\ ~odd)]

\* line 32: idx = int(i * step)
float_index(i, n, r) ==
    LET k == (i * n) \div r
        st == float_step(n, r)
    IN  IF i = 0 \/ (i * n) % r # 0 THEN k
        ELSE IF st.down /\ st.rem > 0
                /\ i * st.rem * Pow2(2 + st.e) > r * Pow2(CeilLog2(k))
        THEN k - 1
        ELSE k

\* lines 28-33: selected
selected_positions(valid, r) ==
    {valid[float_index(i, Len(valid), r) + 1] : i \in 0..(r - 1)}

\* lines 36-42: stamp '*' at the selected positions
apply_diamonds(cleaned_lines, selected) ==
    [y \in 1..Len(cleaned_lines) |->
        [x \in 1..Len(cleaned_lines[y]) |->
            IF <<x - 1, y - 1>> \in selected THEN "*" ELSE cleaned_lines[y][x]]]

\* redistribute_cave_diamonds(pattern_text, required): what it prints, whether it
\* raises, and what it returns
redistribute_cave_diamonds(pattern_text, r) ==
    LET ls == parse_lines(pattern_text)
        cleaned_lines == [y \in 1..Len(ls) |-> remove_diamonds(ls[y])]
        valid == valid_positions(cleaned_lines)
    IN  IF Len(valid) < r
        THEN [raised |-> "none", printed |-> <<"ERROR">>, value |-> pattern_text]
        ELSE IF r = 0
        THEN [raised |-> "ZeroDivisionError", printed |-> <<>>, value |-> <<>>]
        ELSE [raised |-> "none", printed |-> <<>>,
              value |-> join(apply_diamonds(cleaned_lines,
                                            selected_positions(valid, r)))]

RedistAlphabet == {"W", "P", ".", " ", "*", NL}

DirtRows == {[x \in 1..n |-> "."] : n \in 1..MaxCand}

RedistIdle ==
    /\ content = <<>> /\ required = 0 /\ prev = <<>> /\ runs = 0
    /\ log = <<>> /\ raised = "none"

FloodIdle ==
    /\ caves = <<>> /\ cave_i = 0 /\ pc = "idle" /\ lines = <<>>
    /\ player_pos = <<>> /\ diamond_positions = {} /\ visited = {}
    /\ queue = <<>> /\ reachable_diamonds = {} /\ enq_log = <<>>
    /\ results = <<>> /\ statuses = <<>> /\ all_ok = TRUE

ClusterIdle == pattern = <<>> /\ clustering = [kind |-> "none"]

InitRedist ==
    /\ content \in Texts(RedistAlphabet, MaxLen) \cup DirtRows
    /\ required \in 0..(IF Len(content) + 1 < MaxRequired
                       THEN Len(content) + 1 ELSE MaxRequired)
    /\ prev = content
    /\ runs = 0
    /\ log = <<>>
    /\ raised = "none"
    /\ FloodIdle
    /\ ClusterIdle

\* lines 60-66 (and 68-70): the call returns; the pattern is replaced by the
\* returned text and the cave is reported fixed
FixCave ==
    /\ runs < MaxRuns
    /\ raised = "none"
    /\ LET r == redistribute_cave_diamonds(content, required)
       IN  /\ r.raised = "none"
           /\ content' = r.value
           /\ log' = log \o r.printed \o <<"Fixed">>
    /\ prev' = content
    /\ runs' = runs + 1
    /\ UNCHANGED <<required, raised>>
    /\ UNCHANGED <<floodVars, clusterVars>>

\* line 64: the call raises; the script ends before it writes the file back
FixCaveRaises ==
    /\ runs < MaxRuns
    /\ raised = "none"
    /\ LET r == redistribute_cave_diamonds(content, required)
       IN  /\ r.raised # "none"
           /\ raised' = r.raised
           /\ log' = log \o r.printed
    /\ prev' = content
    /\ runs' = runs + 1
    /\ UNCHANGED <<content, required>>
    /\ UNCHANGED <<floodVars, clusterVars>>

NextRedist == FixCave \/ FixCaveRaises

SpecRedist == InitRedist /\ [][NextRedist]_vars

-----------------------------------------------------------------------------
(* verify-accessibility.py *)

\* longest pattern text drawn for flood_fill_check (one cave)
MaxLenFlood == 5
\* longest pattern text when the report loop runs over two caves
MaxLenPair == 3
\* longest pattern text when the flood fill and the sealed-diamond check are run on the same pattern
MaxLenAgree == 6
\* largest diamondsRequired of a cave in the report loop
MaxReqReport == 1

\* player_pos = None
NoPlayer == <<>>

\* line 11: lines = [line for line in pattern_text.strip().split('\n') if line]
flood_lines(pattern_text) ==
    SelectSeq(split(strip(pattern_text)), LAMBDA line : Len(line) > 0)

\* the coordinates (x, y) of the cells of the rows ls that hold character c
cells_with(ls, c) ==
    UNION {{<<x - 1, y - 1>> : x \in {x0 \in 1..Len(ls[y]) : ls[y][x0] = c}} :
              y \in 1..Len(ls)}

\* the last cell of a non-empty set in row-major order
last_cell(S) ==
    CHOOSE p \in S : \A q \in S : q[2] < p[2] \/ (q[2] = p[2] /\ q[1] <= p[1])

\* lines 16-24: the scan leaves the last 'P' it meets in player_pos
find_player(ls) ==
    IF cells_with(ls, "P") = {} THEN NoPlayer ELSE last_cell(cells_with(ls, "P"))

\* line 46: 0 <= ny < len(lines) and 0 <= nx < len(lines[ny])
in_bounds(ls, nx, ny) ==
    /\ 0 <= ny /\ ny < Len(ls)
    /\ 0 <= nx /\ nx < Len(ls[ny + 1])

\* can_walk with a fault: every character can be walked through
can_walk_any(c) == TRUE

\* line 50: char in [' ', '.', '*', 'E', 'F', 'P']
can_walk(c) == c \in {" ", ".", "*", "E", "F", "P"}

\* lines 46-50: the neighbour is enqueued
should_visit(ls, seen, n) ==
    /\ in_bounds(ls, n[1], n[2])
    /\ n \notin seen
    /\ can_walk(ls[n[2] + 1][n[1] + 1])

\* line 43: the four directions, in the order the loop takes them
neighbours(cell) ==
    << <<cell[1], cell[2] + 1>>, <<cell[1], cell[2] - 1>>,
       <<cell[1] + 1, cell[2]>>, <<cell[1] - 1, cell[2]>> >>

\* lines 54-55: the value flood_fill_check returns after the loop
flood_result(diamonds, reachable) ==
    LET unreachable == Cardinality(diamonds) - Cardinality(reachable)
    IN  <<unreachable = 0, Cardinality(reachable), unreachable>>

\* lines 66-73: the status the report loop prints for a cave
report_status(result, req) ==
    IF ~result[1] THEN <<"UNREACHABLE", result[3]>>
    ELSE IF result[2] < req THEN <<"NEED MORE", req - result[2]>>
    ELSE <<"OK", 0>>

FloodAlphabet == {"W", " ", "*", "P", NL}
AgreeAlphabet == {"W", "*", "P", NL}

Caves(alphabet, n) ==
    {[pattern |-> t, req |-> q] : t \in Texts(alphabet, n), q \in 0..MaxReqReport}

FloodStart(cs) ==
    /\ caves = cs
    /\ cave_i = 1
    /\ pc = "call"
    /\ lines = <<>>
    /\ player_pos = NoPlayer
    /\ diamond_positions = {}
    /\ visited = {}
    /\ queue = <<>>
    /\ reachable_diamonds = {}
    /\ enq_log = <<>>
    /\ results = <<>>
    /\ statuses = <<>>
    /\ all_ok = TRUE
    /\ RedistIdle
    /\ ClusterIdle

\* one cave
InitFlood == \E c \in Caves(FloodAlphabet, MaxLenFlood) : FloodStart(<<c>>)

\* two caves
InitReport ==
    \E c1 \in Caves(AgreeAlphabet, MaxLenPair), c2 \in Caves(AgreeAlphabet, MaxLenPair) :
        FloodStart(<<c1, c2>>)

\* one cave, longer patterns over fewer characters
InitAgree == \E c \in Caves(AgreeAlphabet, MaxLenAgree) : FloodStart(<<c>>)

\* lines 11-13: the pattern has no non-empty line
FloodEmpty ==
    /\ pc = "call"
    /\ flood_lines(caves[cave_i].pattern) = <<>>
    /\ lines' = <<>>
    /\ results' = Append(results, <<TRUE, 0, 0>>)
    /\ pc' = "report"
    /\ UNCHANGED <<caves, cave_i, player_pos, diamond_positions, visited, queue,
                   reachable_diamonds, enq_log, statuses, all_ok>>
    /\ UNCHANGED <<redistVars, clusterVars>>

\* lines 11-27: the scan finds no 'P'
FloodNoPlayer ==
    /\ pc = "call"
    /\ LET ls == flood_lines(caves[cave_i].pattern)
       IN  /\ ls # <<>>
           /\ find_player(ls) = NoPlayer
           /\ lines' = ls
           /\ player_pos' = NoPlayer
           /\ diamond_positions' = cells_with(ls, "*")
           /\ results' = Append(results, <<FALSE, 0, Cardinality(cells_with(ls, "*"))>>)
    /\ pc' = "report"
    /\ UNCHANGED <<caves, cave_i, visited, queue, reachable_diamonds, enq_log,
                   statuses, all_ok>>
    /\ UNCHANGED <<redistVars, clusterVars>>

\* lines 11-33: the scan finds the player; the flood fill starts there
FloodBegin ==
    /\ pc = "call"
    /\ LET ls == flood_lines(caves[cave_i].pattern)
       IN  /\ ls # <<>>
           /\ find_player(ls) # NoPlayer
           /\ lines' = ls
           /\ player_pos' = find_player(ls)
           /\ diamond_positions' = cells_with(ls, "*")
           /\ visited' = {find_player(ls)}
           /\ queue' = <<find_player(ls)>>
           /\ enq_log' = <<find_player(ls)>>
    /\ reachable_diamonds' = {}
    /\ pc' = "bfs"
    /\ UNCHANGED <<caves, cave_i, results, statuses, all_ok>>
    /\ UNCHANGED <<redistVars, clusterVars>>

\* lines 35-52: one iteration of the while loop
FloodIter ==
    /\ pc = "bfs"
    /\ queue # <<>>
    /\ LET cell == Head(queue)
           new == SelectSeq(neighbours(cell), LAMBDA n : should_visit(lines, visited, n))
       IN  /\ reachable_diamonds' =
                 IF cell \in diamond_positions
                 THEN reachable_diamonds \cup {cell} ELSE reachable_diamonds
           /\ visited' = visited \cup {new[k] : k \in 1..Len(new)}
           /\ queue' = Tail(queue) \o new
           /\ enq_log' = enq_log \o new
    /\ UNCHANGED <<caves, cave_i, pc, lines, player_pos, diamond_positions,
                   results, statuses, all_ok>>
    /\ UNCHANGED <<redistVars, clusterVars>>

\* lines 54-55: the queue is empty, the function returns
FloodReturn ==
    /\ pc = "bfs"
    /\ queue = <<>>
    /\ results' = Append(results, flood_result(diamond_positions, reachable_diamonds))
    /\ pc' = "report"
    /\ UNCHANGED <<caves, cave_i, lines, player_pos, diamond_positions, visited,
                   queue, reachable_diamonds, enq_log, statuses, all_ok>>
    /\ UNCHANGED <<redistVars, clusterVars>>

\* lines 62-75: the loop body after the call, and the step to the next cave
Report ==
    /\ pc = "report"
    /\ LET st == report_status(results[cave_i], caves[cave_i].req)
       IN  /\ statuses' = Append(statuses, st)
           /\ all_ok' = (all_ok /\ st[1] = "OK")
    /\ IF cave_i < Len(caves)
       THEN cave_i' = cave_i + 1 /\ pc' = "call"
       ELSE cave_i' = cave_i /\ pc' = "done"
    /\ UNCHANGED <<caves, lines, player_pos, diamond_positions, visited, queue,
                   reachable_diamonds, enq_log, results>>
    /\ UNCHANGED <<redistVars, clusterVars>>

NextFlood ==
    \/ FloodEmpty
    \/ FloodNoPlayer
    \/ FloodBegin
    \/ FloodIter
    \/ FloodReturn
    \/ Report

SpecFlood == InitFlood /\ [][NextFlood]_vars
SpecReport == InitReport /\ [][NextFlood]_vars
SpecAgree == InitAgree /\ [][NextFlood]_vars

-----------------------------------------------------------------------------
(* check-sealed-diamonds.py *)

\* lines 25-28: the four orthogonal neighbours of the diamond at (x, y); a
\* neighbour beyond the end of its row, or left of column 0, counts as 'W'
orthogonal(ls, x, y) ==
    LET line == ls[y + 1]
    IN  [above |-> IF x < Len(ls[y]) THEN ls[y][x + 1] ELSE "W",
         below |-> IF x < Len(ls[y + 2]) THEN ls[y + 2][x + 1] ELSE "W",
         left  |-> IF x > 0 THEN line[x] ELSE "W",
         right |-> IF x < Len(line) - 1 THEN line[x + 2] ELSE "W"]

\* lines 35-43: how many of the eight surrounding cells are in range and 'W'
sealed_count(ls, x, y) ==
    Cardinality({d \in {-1, 0, 1} \X {-1, 0, 1} :
                    /\ d # <<0, 0>>
                    /\ in_bounds(ls, x + d[1], y + d[2])
                    /\ ls[y + d[2] + 1][x + d[1] + 1] = "W"})

\* lines 22-46: the issues reported for the cell at (x, y)
issues_at(ls, x, y) ==
    IF ls[y + 1][x + 1] = "*" /\ y > 0 /\ y < Len(ls) - 1
    THEN LET o == orthogonal(ls, x, y)
         IN  (IF o.above = "W" /\ o.below = "W" /\ o.left = "W" /\ o.right = "W"
              THEN <<[x |-> x, y |-> y, reason |-> "completely sealed by walls"]>>
              ELSE <<>>)
             \o
             (IF sealed_count(ls, x, y) >= 7
              THEN <<[x |-> x, y |-> y, reason |-> "in heavily walled area"]>>
              ELSE <<>>)
    ELSE <<>>

RECURSIVE issues_from(_, _, _)
issues_from(ls, x, y) ==
    IF y >= Len(ls) THEN <<>>
    ELSE IF x >= Len(ls[y + 1]) THEN issues_from(ls, 0, y + 1)
    ELSE issues_at(ls, x, y) \o issues_from(ls, x + 1, y)

\* check_sealed_diamonds(pattern_text, cave_name): the issues, in scan order
check_sealed_diamonds(pattern_text) == issues_from(parse_lines(pattern_text), 0, 0)

-----------------------------------------------------------------------------
(* check-all-caves.py *)

\* longest pattern text drawn for the clustering check
MaxLenCluster == 8

\* lines 18-22: (idx, count) of every line that holds a diamond
diamond_lines(ls) ==
    SelectSeq([y \in 1..Len(ls) |-> <<y - 1, count(ls[y], "*")>>],
              LAMBDA e : e[2] > 0)

\* sorted(..., key=lambda x: x[1], reverse=True): stable, largest count first
RECURSIVE insert_desc(_, _)
insert_desc(sorted, e) ==
    IF Len(sorted) = 0 THEN <<e>>
    ELSE IF Head(sorted)[2] >= e[2] THEN <<Head(sorted)>> \o insert_desc(Tail(sorted), e)
    ELSE <<e>> \o sorted

RECURSIVE sorted_desc(_)
sorted_desc(s) ==
    IF Len(s) = 0 THEN <<>>
    ELSE insert_desc(sorted_desc(SubSeq(s, 1, Len(s) - 1)), s[Len(s)])

\* line 26: top_two = sorted(...)[:2]
top_two(dl) == SubSeq(sorted_desc(dl), 1, IF Len(dl) < 2 THEN Len(dl) ELSE 2)

\* line 27: sum(count for _, count in top_two)
RECURSIVE sum_counts(_)
sum_counts(s) == IF Len(s) = 0 THEN 0 ELSE Head(s)[2] + sum_counts(Tail(s))

\* is_clustered with a fault: the threshold of the comment on line 24 (50%)
is_clustered_over_half(top_two_count, available) ==
    top_two_count * 100 > 50 * available

\* lines 28-30: percentage = top_two_count / available * 100; percentage > 60
\* (the double rounds no quotient of two counts across 60)
is_clustered(top_two_count, available) == top_two_count * 100 > 60 * available

\* line 31: f'{percentage:.0f}', the percentage rounded half to even
shown_percentage(top_two_count, available) ==
    LET q == (top_two_count * 100) \div available
        r == (top_two_count * 100) % available
    IN  IF 2 * r < available THEN q
        ELSE IF 2 * r > available THEN q + 1
        ELSE IF q % 2 = 0 THEN q ELSE q + 1

\* lines 13-35: the clustering column of one cave
cluster_check(pattern_text) ==
    LET ls == parse_lines(pattern_text)
        available == count(pattern_text, "*")
        dl == diamond_lines(ls)
        tt == top_two(dl)
    IN  IF Len(dl) > 0
        THEN IF is_clustered(sum_counts(tt), available)
             THEN [kind |-> "clustered",
                   percentage |-> shown_percentage(sum_counts(tt), available),
                   in_lines |-> Len(tt)]
             ELSE [kind |-> "well distributed"]
        ELSE [kind |-> "no diamonds"]

ClusterAlphabet == {"*", ".", NL}

InitCluster ==
    /\ pattern \in Texts(ClusterAlphabet, MaxLenCluster)
    /\ clustering = [kind |-> "none"]
    /\ RedistIdle
    /\ FloodIdle

\* lines 12-38: one pass of the loop body
CheckCave ==
    /\ clustering.kind = "none"
    /\ clustering' = cluster_check(pattern)
    /\ UNCHANGED pattern
    /\ UNCHANGED <<redistVars, floodVars>>

NextCluster == CheckCave

SpecCluster == InitCluster /\ [][NextCluster]_vars

-----------------------------------------------------------------------------
(* Vocabulary of the properties *)

\* the grid of a pattern: the rows of the stripped text, blank rows kept
Grid(text) == parse_lines(text)

GridCells(G) ==
    UNION {{<<x - 1, y - 1>> : x \in 1..Len(G[y])} : y \in 1..Len(G)}

CharAt(G, p) == G[p[2] + 1][p[1] + 1]

Diamonds(G) == {p \in GridCells(G) : CharAt(G, p) = "*"}

\* the Empty/Dirt cells of the grid once its diamonds are removed
Candidates(G) == {p \in GridCells(G) : CharAt(G, p) \in {".", " ", "*"}}

SameShape(G, H) ==
    /\ Len(G) = Len(H)
    /\ \A y \in 1..Len(G) : Len(G[y]) = Len(H[y])

\* p comes before q in row-major order (top to bottom, then left to right)
Before(p, q) == p[2] < q[2] \/ (p[2] = q[2] /\ p[1] < q[1])

\* the k-th cell (from 0) of a set of cells in row-major order
NthCell(S, k) == CHOOSE p \in S : Cardinality({q \in S : Before(q, p)}) = k

Adjacent(p, q) ==
    \/ p[1] = q[1] /\ (p[2] = q[2] + 1 \/ q[2] = p[2] + 1)
    \/ p[2] = q[2] /\ (p[1] = q[1] + 1 \/ q[1] = p[1] + 1)

\* Empty, Dirt, Diamond, Exit, Enemy, Player
Traversable(c) == c \in {" ", ".", "*", "E", "F", "P"}

\* the cells joined to a cell of S by orthogonal steps through traversable cells
RECURSIVE ConnectedTo(_, _)
ConnectedTo(G, S) ==
    LET more == S \cup {q \in GridCells(G) :
                          Traversable(CharAt(G, q)) /\ \E p \in S : Adjacent(p, q)}
    IN  IF more = S THEN S ELSE ConnectedTo(G, more)

\* the last run of the fixes loop printed the ERROR line
LastRunPrintedError == Len(log) >= 2 /\ log[Len(log) - 1] = "ERROR"

\* the last call of redistribute_cave_diamonds stamped its diamonds
Redistributed == runs >= 1 /\ raised = "none" /\ ~LastRunPrintedError

-----------------------------------------------------------------------------
(* Properties of redistribute-diamonds.py, under SpecRedist *)

\* C1: for every grid and every required count R >= 0 that is at most the number
\* of Empty/Dirt candidate cells (diamonds removed), the call returns a grid with
\* exactly R Diamond cells and the rows and row lengths of the input grid.
C1_ExactCountSameShape ==
    (runs >= 1 /\ required <= Cardinality(Candidates(Grid(prev))))
    => /\ raised = "none"
       /\ Cardinality(Diamonds(Grid(content))) = required
       /\ SameShape(Grid(prev), Grid(content))

\* C3: when the grid has fewer Empty/Dirt candidate cells than required, the
\* redistribution fails with an error outcome the caller can tell from a
\* successful redistribution (the call raises, or what it returns is nothing a
\* successful call on the grid returns), and the grid is left exactly as it was.
C3_InsufficientSpaceIsError ==
    (runs >= 1 /\ required > Cardinality(Candidates(Grid(prev))))
    => /\ content = prev
       /\ \/ raised # "none"
          \/ \A r2 \in 1..MaxRequired :
                 LET ok == redistribute_cave_diamonds(prev, r2)
                 IN  (ok.raised = "none" /\ ok.printed = <<>>) => ok.value # content

\* C5 as stated: a successful redistribution leaves every cell whose kind is
\* neither Diamond nor Empty (Wall, Dirt, ...) with its kind at its coordinate.
C5_NonDiamondNonEmptyUnchanged ==
    Redistributed
    => /\ SameShape(Grid(prev), Grid(content))
       /\ \A p \in GridCells(Grid(prev)) :
              CharAt(Grid(prev), p) \notin {"*", " "}
              => CharAt(Grid(content), p) = CharAt(Grid(prev), p)

\* C5 amended: a successful redistribution leaves every cell whose kind is none
\* of Diamond, Empty and Dirt with its kind at its coordinate.
C5_NonCandidateUnchanged ==
    Redistributed
    => /\ SameShape(Grid(prev), Grid(content))
       /\ \A p \in GridCells(Grid(prev)) :
              CharAt(Grid(prev), p) \notin {"*", " ", "."}
              => CharAt(Grid(content), p) = CharAt(Grid(prev), p)

\* a redistribution that stamped a diamond into a grid holding a wall
C5_Witness ==
    /\ Redistributed
    /\ content # prev
    /\ \E p \in GridCells(Grid(prev)) : CharAt(Grid(prev), p) = "W"
    /\ Diamonds(Grid(content)) # {}

\* C6: with N candidates in row-major order and 1 <= R <= N, the diamonds of the
\* result are exactly the candidates at indices floor(i*N/R), i = 0..R-1, and
\* these R indices are pairwise distinct.
C6_EvenlySpacedIndices ==
    LET cand == Candidates(Grid(prev))
        n == Cardinality(cand)
        idx(i) == (i * n) \div required
    IN  (runs = 1 /\ raised = "none" /\ 1 <= required /\ required <= n)
        => /\ Diamonds(Grid(content)) =
                  {NthCell(cand, idx(i)) : i \in 0..(required - 1)}
           /\ \A i, j \in 0..(required - 1) : i # j => idx(i) # idx(j)

\* C7: redistributing the output of a redistribution again with the same R gives
\* the same diamond count and the same diamond coordinates.
C7_SecondRunKeepsDiamonds ==
    (runs >= 2 /\ raised = "none")
    => /\ Diamonds(Grid(content)) = Diamonds(Grid(prev))
       /\ Cardinality(Diamonds(Grid(content))) = Cardinality(Diamonds(Grid(prev)))

\* a second successful run over a grid that holds diamonds and other candidates
C7_Witness ==
    /\ runs = 2
    /\ Redistributed
    /\ Diamonds(Grid(content)) # {}
    /\ Candidates(Grid(content)) # Diamonds(Grid(content))

-----------------------------------------------------------------------------
(* Properties of verify-accessibility.py and check-sealed-diamonds.py *)

\* C2 (SpecFlood): for a grid with its Player cell, the diamonds reported
\* reachable are exactly the Diamond cells joined to the Player cell by
\* orthogonal steps through in-bounds traversable cells, and the unreachable
\* count is the number of diamonds minus the number of reachable ones.
C2_ReachableIsConnected ==
    LET G == Grid(caves[cave_i].pattern)
        conn == ConnectedTo(G, {p \in GridCells(G) : CharAt(G, p) = "P"})
                    \cap Diamonds(G)
    IN  (pc = "report" /\ Cardinality({p \in GridCells(G) : CharAt(G, p) = "P"}) = 1)
        => /\ reachable_diamonds = conn
           /\ results[cave_i][2] = Cardinality(conn)
           /\ results[cave_i][3] = Cardinality(Diamonds(G)) - Cardinality(conn)

\* C4 (SpecReport): the result for a grid without a Player cell differs from the
\* result for every grid that has a Player cell and no reachable diamond.
C4_NoSpawnDistinguished ==
    pc = "done"
    => \A i, j \in 1..Len(caves) :
           ( /\ count(caves[i].pattern, "P") = 0
             /\ count(caves[j].pattern, "P") > 0
             /\ results[j][2] = 0 )
           => results[i] # results[j]

\* the diamonds check_sealed_diamonds reports completely sealed
CompletelySealed(text) ==
    {<<e.x, e.y>> : e \in {check_sealed_diamonds(text)[k] :
                             k \in {k0 \in 1..Len(check_sealed_diamonds(text)) :
                                      check_sealed_diamonds(text)[k0].reason
                                          = "completely sealed by walls"}}}

\* C8 (SpecAgree): on a pattern with a Player cell, every diamond reported
\* completely sealed is reported unreachable by the flood fill: it is not in the
\* reachable set and it is counted in the unreachable count.
C8_SealedIsUnreachable ==
    (pc = "report" /\ count(caves[cave_i].pattern, "P") > 0)
    => /\ CompletelySealed(caves[cave_i].pattern) \cap reachable_diamonds = {}
       /\ results[cave_i][3] >= Cardinality(CompletelySealed(caves[cave_i].pattern))

\* the cells of a sequence
Range(s) == {s[k] : k \in 1..Len(s)}

\* the loop variant: twice the cells not yet visited, plus the queue length
Variant == 2 * (Cardinality(GridCells(lines)) - Cardinality(visited)) + Len(queue)

\* C10 (SpecFlood): the flood fill terminates (every iteration lowers a variant
\* that is never negative); while it runs, no cell has been enqueued twice, a
\* cell is enqueued exactly when it enters the visited set, every cell queued or
\* dequeued is an in-bounds cell that is traversable or the Player cell, and the
\* visited set never shrinks.
C10_FloodFillTerminates ==
    /\ [](pc = "bfs"
            => /\ Variant >= 0
               /\ Cardinality(Range(enq_log)) = Len(enq_log)
               /\ Range(enq_log) = visited
               /\ Range(queue) \subseteq visited
               /\ Cardinality(Range(queue)) = Len(queue)
               /\ \A c \in visited :
                      /\ in_bounds(lines, c[1], c[2])
                      /\ (Traversable(lines[c[2] + 1][c[1] + 1]) \/ c = player_pos))
    /\ [][(pc = "bfs" /\ pc' = "bfs")
            => /\ Variant' < Variant
               /\ visited \subseteq visited'
               /\ Len(enq_log') - Len(enq_log) = Cardinality(visited' \ visited)]_vars

\* a finished flood fill that enqueued at least three cells
C10_Witness == pc = "done" /\ Len(enq_log) >= 3 /\ reachable_diamonds # {}

-----------------------------------------------------------------------------
(* Properties of check-all-caves.py, under SpecCluster *)

\* the largest combined diamond count of two rows of the grid
TopTwoTotal(G) ==
    LET n(y) == count(G[y], "*")
        sums == {n(y) : y \in 1..Len(G)}
                   \cup {n(y[1]) + n(y[2]) :
                           y \in {z \in (1..Len(G)) \X (1..Len(G)) : z[1] # z[2]}}
    IN  CHOOSE m \in sums : \A k \in sums : k <= m

====
